---- MODULE Spec2Model ----
(***************************************************************************)
(* Model of the MediBridge client reconciliation engine (useMessages),     *)
(* the REST helpers of the API client (getMessages / getAllMessages) and   *)
(* the relay + message store they talk to.                                 *)
(*                                                                         *)
(* The client side is translated from src/src/hooks/useMessages.ts and     *)
(* src/unnamed/part_011 (lib/api.ts).  The relay and the message store are *)
(* the Python backend, which is not part of the TypeScript sources; they   *)
(* are modelled from spec.md sections 4.1 and 6.                           *)
(***************************************************************************)
EXTENDS Integers, Sequences, FiniteSets, TLC

(* ------------------------------ bounds --------------------------------- *)
\* messages sent in one behaviour, by the user (sendMessage calls) and the peer
MaxMsgs == 2
\* largest value of the wall clock read by Date.now()
MaxClock == 2
\* stands for pageSize = 100 of getAllMessages (scaled down)
PageSize == 2
\* stands for the server's default page limit of 50 (scaled down)
DefaultLimit == 1
\* store sizes explored by the pagination specification
MaxN == 5
\* largest created_at stamp explored by the pagination specification
MaxStamp == 3
\* messages sent through the relay in one behaviour of the relay specification
MaxRelayMsgs == 2
\* events emitted and not yet handled by the relay, in the lifecycle specification
MaxOutbox == 4
\* history fetches of earlier effect runs in flight at once, in the session specification
MaxStale == 1
\* recordings made in one behaviour of the audio specification
MaxRecordings == 3
\* upload attempts followed per recording
MaxUploads == 3
\* failed reconnection attempts followed in one outage
MaxAttempts == 6
\* largest Date.now() of the display specification, ms
MaxIndClock == 90000

(* ----------------------------- constants ------------------------------- *)
Me == "me"
Peer == "peer"
NoTr == <<"null", 0>>
\* what the user may type; Trim models String.prototype.trim on these
Inputs == {"a", "b", " a "}
NoId == <<"none", 0>>
NoCursor == <<"none", 0>>
\* bookkeeping of the last handler: the cleanup before it emitted no leave_room
NoLeave == <<"noleave", 0>>
\* the promise of getAllMessages has not settled
NoResult == <<"pending">>
\* session ids: Home is the session whose message traffic is modelled
Home == "A"
Sessions == {"A", "B"}
NoSession == "none"
\* the events useMessages registers a handler for
Events == {"connect", "disconnect", "error", "new_message", "message_updated"}

VARIABLES
  now,              \* wall clock as last read by Date.now()
  store,            \* Message Store: persisted messages of the session, insertion order
  pendingTr,        \* server ids whose translation has not completed
  rooms,            \* relay: the session rooms the client's handle is a member of
  inbox,            \* relay -> client events in flight (in-order transport)
  outbox,           \* client -> relay events in flight
  socketConnected,  \* socket.connected of the shared Socket.IO instance
  opened,           \* the effect of useMessages has run and not been cleaned up
  sessionId,        \* the sessionId the effect ran (or last ran) with
  listeners,        \* handlers registered on the shared socket, per event
  messages,         \* useState messages
  loading,          \* useState loading
  connected,        \* useState connected
  joinedRef,        \* joinedRef.current
  fetchState,       \* history fetch of fetchInitial: none/requested/served/done
  fetchData,        \* response body of the history fetch
  fetchLen,         \* number of persisted messages when the server answered
  pending,          \* REST sends in flight: [tid, content, st]
  nSends,           \* number of sendMessage calls so far
  missed,           \* ids whose message_updated was broadcast while the client,
                    \* holding the message and having joined before, was disconnected
  stale,            \* history fetches of earlier runs of the effect, still in
                    \* flight: [session, served, data]
  last,             \* the handler that ran last and what it did
  pg_k,             \* pagination loop: page limit k
  pg_all,           \* pagination loop: accumulated result (all)
  pg_cursor,        \* pagination loop: cursor
  pg_pc,            \* pagination loop: idle / loop / done / rejected
  pg_reqs,          \* pagination loop: page requests issued
  pg_ret,           \* what the promise of getAllMessages settled with
  pg_fail,          \* a page request of the loop was rejected
  newMessage,       \* SessionChat: useState newMessage (the input field)
  isSending,        \* SessionChat: useState isSending
  textToSend,       \* SessionChat: handleSend's captured text
  toasts,           \* SessionChat: number of 'Send failed' toasts shown
  tr_pc,            \* translateText: idle / awaiting / returned / thrown
  tr_text,          \* translateText: argument text
  tr_lang,          \* translateText: argument targetLang
  tr_err,           \* translateText: how the backend call failed, if it did
  tr_ret,           \* translateText: the string the promise resolved with
  r_rooms,          \* Relay Core: room registry, session id -> set of handles
  r_store,          \* Relay Core: Message Store records [id, session, translated]
  r_pend,           \* Relay Core: translation requests issued and not completed
  r_log,            \* per handle: the events the relay delivered to it, in order
  r_job,            \* Relay Core: the send being processed and its next step
  r_res,            \* outcome of the last relay call: ok / error of a send,
                    \* noop of a join by a handle that was a member already
  r_since,          \* per message id: members at Phase 1 that stayed ever since
  isRecording,      \* useAudioRecorder: useState isRecording
  audioBlob,        \* useAudioRecorder: useState audioBlob (0: null, n: the n-th recording)
  stopping,         \* MediaRecorder stopped, its onstop has not fired yet
  isUploadingAudio, \* SessionChat: useState isUploadingAudio
  uploading,        \* the blob of the uploadAudio call in flight (0: none)
  uploads,          \* per recording: upload attempts started
  nRecordings,      \* recordings finished so far
  ind_msg,          \* translation display: the message rendered
  ind_now,          \* translation display: Date.now() in ms
  ind_view,         \* translation display: what the last render put below the bubble
  rc_state,         \* shared socket: connected / reconnecting / failed
  rc_attempts,      \* shared socket: failed reconnection attempts of this outage
  rc_delay,         \* shared socket: the delay set before the next attempt, ms
  rc_wait,          \* shared socket: what is left of that delay, ms
  rc_token,         \* the JWT getToken() returns
  rc_auth           \* socket.auth.token

engineVars == <<now, pendingTr, rooms, inbox, outbox, socketConnected,
                opened, sessionId, listeners, messages, loading, connected,
                joinedRef, fetchState, fetchData, fetchLen, pending, nSends,
                missed, stale, last>>
pageVars == <<pg_k, pg_all, pg_cursor, pg_pc, pg_reqs, pg_ret, pg_fail>>
chatVars == <<newMessage, isSending, textToSend, toasts>>
\* what the hook's own handlers never touch
relayVars == <<r_rooms, r_store, r_pend, r_log, r_job, r_res, r_since>>
trVars == <<tr_pc, tr_text, tr_lang, tr_err, tr_ret>>
audioVars == <<isRecording, audioBlob, stopping, isUploadingAudio, uploading,
               uploads, nRecordings>>
indVars == <<ind_msg, ind_now, ind_view>>
rcVars == <<rc_state, rc_attempts, rc_delay, rc_wait, rc_token, rc_auth>>
\* the rest of the page and the socket's own reconnection
uiVars == <<audioVars, indVars, rcVars>>
\* what neither the hook nor the message input touches
backVars == <<pageVars, relayVars, trVars, uiVars>>
sideVars == <<backVars, chatVars>>
vars == <<store, engineVars, pageVars, chatVars, relayVars, trVars, uiVars>>

(* ------------------------------ helpers -------------------------------- *)
SrvId(n) == <<"srv", n>>
TempId(t) == <<"temp", t>>
\* m.id.startsWith('temp-')
IsTemp(id) == id[1] = "temp"
IsSrv(id) == id[1] = "srv"

\* a MessageOut of the session whose traffic is modelled
Msg(id, sender, content, tc, created) ==
  [id |-> id, session_id |-> Home, sender_id |-> sender, content |-> content,
   translated_content |-> tc, created_at |-> created]

Trim(s) == IF s = " a " THEN "a" ELSE s

\* the translation (or error sentinel) the worker returns for message n
Tr(n) == <<"tr", n>>

Take(s, n) == IF Len(s) <= n THEN s ELSE SubSeq(s, 1, n)

RemoveAt(s, i) == SubSeq(s, 1, i - 1) \o SubSeq(s, i + 1, Len(s))

Ids(s) == {s[i].id : i \in 1..Len(s)}

Op(name, id, flag, removed) == [op |-> name, id |-> id, flag |-> flag, removed |-> removed]


(* --------------------- message store / relay (spec) -------------------- *)
\* effective page limit: default when absent (0), capped at the maximum
MaxLimit == PageSize
EffLimit(limit) ==
  LET l == IF limit = 0 THEN DefaultLimit ELSE limit
  IN  IF l > MaxLimit THEN MaxLimit ELSE l

\* GET /chat/{id}/messages?limit&cursor : messages with created_at strictly
\* greater than the cursor message's, ascending, capped at limit
ServerPage(st, limit, cursor) ==
  LET after == IF cursor = NoCursor THEN st
               ELSE SelectSeq(st, LAMBDA m : m.created_at > st[cursor[2]].created_at)
  IN  Take(after, EffLimit(limit))

NewMessageEvent(m) == [type |-> "new_message", msg |-> m]
UpdateEvent(id, tc) == [type |-> "message_updated", id |-> id, translated_content |-> tc]

\* broadcast to the room of the session: only a member receives the event
Broadcast(ev) == IF Home \in rooms THEN Append(inbox, ev) ELSE inbox

\* a reading of the wall clock: time may have passed since the last one
ClockRead == {now} \cup (IF now < MaxClock THEN {now + 1} ELSE {})

\* messages sent so far: sendMessage calls and messages of the peer
Sent == nSends + Cardinality({i \in 1..Len(store) : store[i].sender_id = Peer})

\* persist (Phase 1 record) then broadcast the full persisted message; ids and
\* created_at are assigned in insertion order (the client never reads created_at)
Persist(sender, content) ==
  LET m == Msg(SrvId(Len(store) + 1), sender, content, NoTr, Len(store) + 1)
  IN  /\ store' = Append(store, m)
      /\ inbox' = Broadcast(NewMessageEvent(m))
      /\ pendingTr' = pendingTr \cup {m.id}

(* -------------------- useMessages: state reducers ---------------------- *)
\* faulty variant: keeps matching optimistic placeholders
withoutOptimistic_keep(prev, msg) == prev

\* faulty variant: placeholders are matched by content alone
withoutOptimistic_contentOnly(prev, msg) ==
  SelectSeq(prev, LAMBDA m : \/ ~IsTemp(m.id)
                             \/ m.content # msg.content)

\* prev.filter(m => !temp || m.content !== msg.content || m.sender_id !== msg.sender_id)
withoutOptimistic(prev, msg) ==
  SelectSeq(prev, LAMBDA m : \/ ~IsTemp(m.id)
                             \/ m.content # msg.content
                             \/ m.sender_id # msg.sender_id)

\* faulty variant: no dedup guard by id
onNewMessageState_nodedup(prev, msg) == Append(withoutOptimistic(prev, msg), msg)

\* faulty variant: inserts at the head instead of the tail
onNewMessageState_head(prev, msg) ==
  LET w == withoutOptimistic(prev, msg)
  IN  IF \E i \in 1..Len(w) : w[i].id = msg.id THEN w ELSE <<msg>> \o w

\* the updater passed to setMessages by onNewMessage
onNewMessageState(prev, msg) ==
  LET w == withoutOptimistic(prev, msg)
  IN  IF \E i \in 1..Len(w) : w[i].id = msg.id THEN w ELSE Append(w, msg)

\* faulty variant: the update is dropped
onMessageUpdatedState_drop(prev, update) == prev

\* faulty variant: the translation is written to every entry
onMessageUpdatedState_all(prev, update) ==
  [i \in 1..Len(prev) |->
     [prev[i] EXCEPT !.translated_content = update.translated_content]]

\* the updater passed to setMessages by onMessageUpdated
onMessageUpdatedState(prev, update) ==
  [i \in 1..Len(prev) |->
     IF prev[i].id = update.id
     THEN [prev[i] EXCEPT !.translated_content = update.translated_content]
     ELSE prev[i]]

\* faulty variant: the optimistic entry is left in place
rollback_none(prev, tempId) == prev

\* prev.filter(m => m.id !== tempId) in the catch block of sendMessage
rollback(prev, tempId) == SelectSeq(prev, LAMBDA m : m.id # tempId)


(* ------------------- services/translator.ts: translateText ------------ *)
\* the codes of SUPPORTED_LANGUAGES
Langs == {"en", "es", "hi", "fr", "de", "zh", "ja", "ar", "pt", "ru", "te"}
Texts == {"", "Hola", "me duele"}
\* how apiTranslate can reject: fetch fails, the response is not ok, the
\* body is not JSON, the body has no object to read translated_text from
ApiErrors == {"network", "http", "json", "shape"}

\* translated_text of the backend's answer
apiTranslate(text, targetLang) == text \o "@" \o targetLang

\* faulty variant: the error is thrown on to the caller
translateTextCatch_rethrow(text) == [pc |-> "thrown", ret |-> ""]

\* catch (error): return `[Translation failed]: ${text}`
translateTextCatch(text) ==
  [pc |-> "returned", ret |-> "[Translation failed]: " \o text]

TrIdle ==
  /\ tr_pc = "idle"
  /\ tr_text = ""
  /\ tr_lang = "en"
  /\ tr_err = "none"
  /\ tr_ret = ""

\* translateText(text, targetLang) is called: apiTranslate is awaited
translateText(text, targetLang) ==
  /\ tr_pc # "awaiting"
  /\ tr_pc' = "awaiting"
  /\ tr_text' = text
  /\ tr_lang' = targetLang
  /\ tr_err' = "none"
  /\ tr_ret' = ""
  /\ UNCHANGED <<store, engineVars, uiVars, pageVars, chatVars, relayVars>>

\* return await apiTranslate(text, targetLang)
translateTextReturn ==
  /\ tr_pc = "awaiting"
  /\ tr_pc' = "returned"
  /\ tr_ret' = apiTranslate(tr_text, tr_lang)
  /\ UNCHANGED <<tr_text, tr_lang, tr_err>>
  /\ UNCHANGED <<store, engineVars, uiVars, pageVars, chatVars, relayVars>>

\* apiTranslate rejects: the catch block runs
translateTextFail(e) ==
  /\ tr_pc = "awaiting"
  /\ tr_err' = e
  /\ tr_pc' = translateTextCatch(tr_text).pc
  /\ tr_ret' = translateTextCatch(tr_text).ret
  /\ UNCHANGED <<tr_text, tr_lang>>
  /\ UNCHANGED <<store, engineVars, uiVars, pageVars, chatVars, relayVars>>

(* ------------------------- Relay Core (spec 4.1) ----------------------- *)
\* a relay serving several handles: room registry, send in its steps,
\* translation completion
Handles == {"h1", "h2"}
NoJob == [session |-> NoSession, id |-> 0, step |-> 0]
RelayMsgIds == 1..(MaxRelayMsgs + 1)

Members(reg, S) == IF S \in DOMAIN reg THEN reg[S] ELSE {}

\* faulty variant: a room is created empty and the handle added only to a
\* room that exists
join_lazyEmpty(reg, S, h) ==
  IF S \in DOMAIN reg THEN [reg EXCEPT ![S] = @ \cup {h}]
  ELSE [x \in DOMAIN reg \cup {S} |-> IF x = S THEN {} ELSE reg[x]]

\* join(session_id, handle): add the handle to the room's membership set,
\* creating the room on first join
join(reg, S, h) ==
  [x \in DOMAIN reg \cup {S} |-> IF x = S THEN Members(reg, S) \cup {h} ELSE reg[x]]

\* leave(session_id, handle): remove the handle; an empty room is collected
leave(reg, S, h) ==
  LET keep == {x \in DOMAIN reg : (IF x = S THEN reg[x] \ {h} ELSE reg[x]) # {}}
  IN  [x \in keep |-> IF x = S THEN reg[x] \ {h} ELSE reg[x]]

\* faulty variant: translation is requested before the Phase 1 broadcast
SendOrder_translateFirst == <<"persist", "translate", "broadcast">>

\* faulty variant: the Phase 1 broadcast goes out before the insert
SendOrder_broadcastFirst == <<"broadcast", "persist", "translate">>

\* the steps of send: persist (Phase 1 record), broadcast, trigger translation
SendOrder == <<"persist", "broadcast", "translate">>

RelayIdle ==
  /\ r_rooms = <<>>
  /\ r_store = <<>>
  /\ r_pend = {}
  /\ r_log = [h \in Handles |-> <<>>]
  /\ r_job = NoJob
  /\ r_res = "none"
  /\ r_since = [n \in RelayMsgIds |-> {}]

\* broadcast ev to every handle of room S
Deliver(log, S, ev) ==
  [h \in Handles |-> IF h \in Members(r_rooms, S) THEN Append(log[h], ev) ELSE log[h]]

RelayJoinRoom(S, h) ==
  /\ r_rooms' = join(r_rooms, S, h)
  /\ r_res' = IF h \in Members(r_rooms, S) THEN "noop" ELSE r_res
  /\ UNCHANGED <<r_store, r_pend, r_log, r_job, r_since>>
  /\ UNCHANGED <<store, engineVars, uiVars, pageVars, chatVars, trVars>>

RelayLeaveRoom(S, h) ==
  /\ h \in Members(r_rooms, S)
  /\ r_rooms' = leave(r_rooms, S, h)
  /\ r_since' = [n \in RelayMsgIds |->
                   IF n <= Len(r_store) /\ r_store[n].session # S
                   THEN r_since[n] ELSE r_since[n] \ {h}]
  /\ UNCHANGED <<r_store, r_pend, r_log, r_job, r_res>>
  /\ UNCHANGED <<store, engineVars, uiVars, pageVars, chatVars, trVars>>

\* the transport of handle h drops: it is removed from every room
RelayDrop(h) ==
  /\ \E S \in DOMAIN r_rooms : h \in r_rooms[S]
  /\ r_rooms' = LET keep == {x \in DOMAIN r_rooms : r_rooms[x] \ {h} # {}}
                IN  [x \in keep |-> r_rooms[x] \ {h}]
  /\ r_since' = [n \in RelayMsgIds |-> r_since[n] \ {h}]
  /\ UNCHANGED <<r_store, r_pend, r_log, r_job, r_res>>
  /\ UNCHANGED <<store, engineVars, uiVars, pageVars, chatVars, trVars>>

\* send(session_id, ...) is called: sends are processed one after the other
send(S) ==
  /\ r_job = NoJob
  /\ Len(r_store) < MaxRelayMsgs
  /\ r_job' = [session |-> S, id |-> Len(r_store) + 1, step |-> 1]
  /\ r_res' = "none"
  /\ UNCHANGED <<r_rooms, r_store, r_pend, r_log, r_since>>
  /\ UNCHANGED <<store, engineVars, uiVars, pageVars, chatVars, trVars>>

JobAfter(step) ==
  IF step = Len(SendOrder) THEN NoJob ELSE [r_job EXCEPT !.step = step + 1]
ResAfter(step) == IF step = Len(SendOrder) THEN "ok" ELSE r_res

\* the Message Store insert of the send succeeds
sendPersist ==
  /\ r_job # NoJob
  /\ SendOrder[r_job.step] = "persist"
  /\ r_store' = Append(r_store, [id |-> r_job.id, session |-> r_job.session,
                                  translated |-> FALSE])
  /\ r_job' = JobAfter(r_job.step)
  /\ r_res' = ResAfter(r_job.step)
  /\ UNCHANGED <<r_rooms, r_pend, r_log, r_since>>
  /\ UNCHANGED <<store, engineVars, uiVars, pageVars, chatVars, trVars>>

\* the Message Store insert fails: fatal to this send, error to the caller
sendPersistFail ==
  /\ r_job # NoJob
  /\ SendOrder[r_job.step] = "persist"
  /\ r_job' = NoJob
  /\ r_res' = "error"
  /\ UNCHANGED <<r_rooms, r_store, r_pend, r_log, r_since>>
  /\ UNCHANGED <<store, engineVars, uiVars, pageVars, chatVars, trVars>>

\* Phase 1: the full message is broadcast to the room
sendBroadcast ==
  /\ r_job # NoJob
  /\ SendOrder[r_job.step] = "broadcast"
  /\ r_log' = Deliver(r_log, r_job.session, <<"new_message", r_job.id>>)
  /\ r_since' = [r_since EXCEPT ![r_job.id] = Members(r_rooms, r_job.session)]
  /\ r_job' = JobAfter(r_job.step)
  /\ r_res' = ResAfter(r_job.step)
  /\ UNCHANGED <<r_rooms, r_store, r_pend>>
  /\ UNCHANGED <<store, engineVars, uiVars, pageVars, chatVars, trVars>>

\* the translation of the message is requested (asynchronous)
sendTranslate ==
  /\ r_job # NoJob
  /\ SendOrder[r_job.step] = "translate"
  /\ r_pend' = r_pend \cup {<<r_job.id, r_job.session>>}
  /\ r_job' = JobAfter(r_job.step)
  /\ r_res' = ResAfter(r_job.step)
  /\ UNCHANGED <<r_rooms, r_store, r_log, r_since>>
  /\ UNCHANGED <<store, engineVars, uiVars, pageVars, chatVars, trVars>>

\* on_translation_complete: update the record, then Phase 2 broadcast
on_translation_complete(p) ==
  /\ p \in r_pend
  /\ r_pend' = r_pend \ {p}
  /\ r_store' = [n \in 1..Len(r_store) |->
                   IF r_store[n].id = p[1] THEN [r_store[n] EXCEPT !.translated = TRUE]
                   ELSE r_store[n]]
  /\ r_log' = Deliver(r_log, p[2], <<"message_updated", p[1]>>)
  /\ UNCHANGED <<r_rooms, r_job, r_res, r_since>>
  /\ UNCHANGED <<store, engineVars, uiVars, pageVars, chatVars, trVars>>

\* engine state the relay specification starts from and never touches
\* useAudioRecorder and the upload state after the first render
AudioIdle ==
  /\ isRecording = FALSE
  /\ audioBlob = 0
  /\ stopping = FALSE
  /\ isUploadingAudio = FALSE
  /\ uploading = 0
  /\ uploads = [b \in 1..MaxRecordings |-> 0]
  /\ nRecordings = 0

\* no message is on display
IndIdle ==
  /\ ind_msg = [id |-> SrvId(1), content |-> "Hola", translated_content |-> "",
                audio_url |-> "", created_at |-> 0]
  /\ ind_now = 0
  /\ ind_view = "spinner"

\* the socket right after io(): connected, authenticated with the current token
RcIdle ==
  /\ rc_state = "connected"
  /\ rc_attempts = 0
  /\ rc_delay = 0
  /\ rc_wait = 0
  /\ rc_token = "t1"
  /\ rc_auth = "t1"

EngineIdle ==
  /\ now = 1
  /\ store = <<>>
  /\ pendingTr = {}
  /\ rooms = {}
  /\ inbox = <<>>
  /\ outbox = <<>>
  /\ socketConnected = FALSE
  /\ opened = FALSE
  /\ sessionId = NoSession
  /\ listeners = [e \in Events |-> 0]
  /\ messages = <<>>
  /\ loading = TRUE
  /\ connected = FALSE
  /\ joinedRef = FALSE
  /\ fetchState = "none"
  /\ fetchData = <<>>
  /\ fetchLen = 0
  /\ pending = <<>>
  /\ nSends = 0
  /\ missed = {}
  /\ stale = {}
  /\ last = [op |-> "init", id |-> NoId, flag |-> FALSE, removed |-> 0]

\* nothing has run yet, anywhere
AllIdle ==
  /\ EngineIdle
  /\ RelayIdle
  /\ TrIdle
  /\ AudioIdle
  /\ IndIdle
  /\ RcIdle
  /\ pg_k = 0
  /\ pg_all = <<>>
  /\ pg_cursor = NoCursor
  /\ pg_pc = "idle"
  /\ pg_reqs = 0
  /\ pg_ret = NoResult
  /\ pg_fail = FALSE
  /\ newMessage = ""
  /\ isSending = FALSE
  /\ textToSend = ""
  /\ toasts = 0

RelayInit == AllIdle

RelayNext ==
  \/ \E S \in Sessions : \E h \in Handles : RelayJoinRoom(S, h)
  \/ \E S \in Sessions : \E h \in Handles : RelayLeaveRoom(S, h)
  \/ \E h \in Handles : RelayDrop(h)
  \/ send(Home)
  \/ sendPersist
  \/ sendPersistFail
  \/ sendBroadcast
  \/ sendTranslate
  \/ \E p \in r_pend : on_translation_complete(p)

RelaySpec == RelayInit /\ [][RelayNext]_vars

TrNext ==
  \/ \E text \in Texts : \E targetLang \in Langs : translateText(text, targetLang)
  \/ translateTextReturn
  \/ \E e \in ApiErrors : translateTextFail(e)

TrInit == AllIdle

\* translateText called again and again, on its own
TrSpec == TrInit /\ [][TrNext]_vars

(* ------------------------------- Init ---------------------------------- *)
PageIdle ==
  /\ pg_k = 0
  /\ pg_all = <<>>
  /\ pg_cursor = NoCursor
  /\ pg_pc = "idle"
  /\ pg_reqs = 0
  /\ pg_ret = NoResult
  /\ pg_fail = FALSE

\* SessionChat after its first render: useState initial values
ChatIdle ==
  /\ newMessage = ""
  /\ isSending = FALSE
  /\ textToSend = ""
  /\ toasts = 0

\* the hook after its first render: useState / useRef initial values; the
\* shared socket may or may not be connected already
Init ==
  /\ now = 1
  /\ store = <<>>
  /\ pendingTr = {}
  /\ rooms = {}
  /\ inbox = <<>>
  /\ outbox = <<>>
  /\ socketConnected \in BOOLEAN
  /\ opened = FALSE
  /\ sessionId = NoSession
  /\ listeners = [e \in Events |-> 0]
  /\ messages = <<>>
  /\ loading = TRUE
  /\ connected = FALSE
  /\ joinedRef = FALSE
  /\ fetchState = "none"
  /\ fetchData = <<>>
  /\ fetchLen = 0
  /\ pending = <<>>
  /\ nSends = 0
  /\ missed = {}
  /\ stale = {}
  /\ last = Op("init", NoId, FALSE, 0)
  /\ PageIdle
  /\ ChatIdle
  /\ RelayIdle
  /\ TrIdle
  /\ AudioIdle
  /\ IndIdle
  /\ RcIdle

(* ------------------------- environment actions ------------------------- *)
\* the other participant sends a message: relay send = persist + Phase 1
PeerSend ==
  /\ Sent < MaxMsgs
  /\ Persist(Peer, "a")
  /\ UNCHANGED <<now, rooms, outbox, socketConnected, opened, sessionId, listeners, messages,
                 loading, connected, joinedRef, fetchState, fetchData, fetchLen,
                 pending, nSends, missed, stale, last, sideVars>>

\* POST /chat/{id}/send reaches the relay: persist, broadcast, answer 200
ServerSend(i) ==
  /\ pending[i].st = "sent"
  /\ Persist(Me, pending[i].content)
  /\ pending' = [pending EXCEPT ![i].st = "ok"]
  /\ UNCHANGED <<now, rooms, outbox, socketConnected, opened, sessionId, listeners, messages,
                 loading, connected, joinedRef, fetchState, fetchData, fetchLen,
                 nSends, missed, stale, last, sideVars>>

\* on_translation_complete: update the store record, then Phase 2 broadcast
TranslationComplete(id) ==
  /\ id \in pendingTr
  /\ pendingTr' = pendingTr \ {id}
  /\ store' = [store EXCEPT ![id[2]].translated_content = Tr(id[2])]
  /\ inbox' = Broadcast(UpdateEvent(id, Tr(id[2])))
  /\ missed' = IF ~socketConnected /\ joinedRef /\ id \in Ids(messages)
               THEN missed \cup {id} ELSE missed
  /\ UNCHANGED <<now, rooms, outbox, socketConnected, opened, sessionId, listeners, messages,
                 loading, connected, joinedRef, fetchState, fetchData, fetchLen,
                 pending, nSends, stale, last, sideVars>>

\* the relay processes a join_room: join(session, handle)
RelayJoin ==
  /\ outbox # <<>>
  /\ Head(outbox).type = "join_room"
  /\ rooms' = rooms \cup {Head(outbox).session_id}
  /\ outbox' = Tail(outbox)
  /\ UNCHANGED <<now, store, pendingTr, inbox, socketConnected, opened, sessionId, listeners,
                 messages, loading, connected, joinedRef, fetchState, fetchData,
                 fetchLen, pending, nSends, missed, stale, last, sideVars>>

\* the persisted messages of a session (only Home has traffic)
StoreOf(s) == IF s = Home THEN store ELSE <<>>

\* the history request reaches the server: no limit, no cursor
FetchServe ==
  /\ fetchState = "requested"
  /\ fetchState' = "served"
  /\ fetchData' = ServerPage(StoreOf(sessionId), 0, NoCursor)
  /\ fetchLen' = Len(StoreOf(sessionId))
  /\ UNCHANGED <<now, store, pendingTr, rooms, inbox, outbox, socketConnected,
                 opened, sessionId, listeners, messages, loading, connected, joinedRef,
                 pending, nSends, missed, stale, last, sideVars>>


(* ------------------------- useMessages: effect ------------------------- *)
JoinEvent(s) == [type |-> "join_room", session_id |-> s]
LeaveEvent(s) == [type |-> "leave_room", session_id |-> s]

\* socket.on(e, handler) for the five handlers / socket.off of the same
Registered(e) == listeners[e] > 0

\* joinRoom: returns early when joinedRef.current is set, else emits
\* join_room and sets it
joinRoom(joined) == [emit |-> ~joined, joined |-> TRUE]

\* the fetchInitial of the previous run of the effect, if it has not settled:
\* nothing cancels it
InFlight ==
  IF fetchState \in {"requested", "served"}
  THEN {[session |-> sessionId, served |-> fetchState = "served", data |-> fetchData]}
  ELSE {}

\* the effect body: reset joinedRef, start fetchInitial, mirror
\* socket.connected, join at once when connected, register the listeners
Open(s) ==
  /\ ~opened
  /\ opened' = TRUE
  /\ sessionId' = s
  /\ listeners' = [e \in Events |-> listeners[e] + 1]
  /\ fetchState' = "requested"
  /\ loading' = TRUE
  /\ connected' = socketConnected
  /\ IF socketConnected
     THEN /\ joinedRef' = joinRoom(FALSE).joined
          /\ outbox' = IF joinRoom(FALSE).emit THEN Append(outbox, JoinEvent(s)) ELSE outbox
     ELSE /\ joinedRef' = FALSE
          /\ outbox' = outbox
  /\ stale' = stale \cup InFlight
  /\ last' = Op("open", IF last.op = "close" THEN last.id ELSE NoId, FALSE, 0)
  /\ UNCHANGED <<now, store, pendingTr, rooms, inbox, socketConnected,
                 messages, fetchData, fetchLen, pending, nSends, missed, sideVars>>

\* faulty variant: joinedRef.current is not reset before joinRoom
onConnect_noreset ==
  /\ connected' = TRUE
  /\ joinedRef' = joinRoom(joinedRef).joined
  /\ outbox' = IF joinRoom(joinedRef).emit THEN Append(outbox, JoinEvent(sessionId)) ELSE outbox
  /\ last' = Op("connect", IF last.op = "open" THEN last.id ELSE NoId, joinedRef, 0)
  /\ UNCHANGED <<messages, loading>>

\* onConnect: setConnected(true); joinedRef.current = false; joinRoom()
\* (last.flag: the room had been joined before, i.e. this is a reconnect)
onConnect ==
  /\ connected' = TRUE
  /\ joinedRef' = joinRoom(FALSE).joined
  /\ outbox' = IF joinRoom(FALSE).emit THEN Append(outbox, JoinEvent(sessionId)) ELSE outbox
  /\ last' = Op("connect", IF last.op = "open" THEN last.id ELSE NoId, joinedRef, 0)
  /\ UNCHANGED <<messages, loading>>

\* faulty variant: the connected flag is left as it was
onDisconnect_noflag ==
  /\ connected' = connected
  /\ last' = Op("disconnect", NoId, FALSE, 0)
  /\ UNCHANGED <<messages, loading, joinedRef>>

\* onDisconnect: setConnected(false)
onDisconnect ==
  /\ connected' = FALSE
  /\ last' = Op("disconnect", NoId, FALSE, 0)
  /\ UNCHANGED <<messages, loading, joinedRef>>

\* the transport (re)connects and fires 'connect'
TransportConnect ==
  /\ ~socketConnected
  /\ socketConnected' = TRUE
  /\ IF Registered("connect") THEN onConnect
     ELSE UNCHANGED <<connected, joinedRef, outbox, last, messages, loading>>
  /\ UNCHANGED <<now, store, pendingTr, rooms, inbox, opened, sessionId, listeners, fetchState,
                 fetchData, fetchLen, pending, nSends, missed, stale, sideVars>>

\* the transport drops: the relay forgets the handle, events in flight are
\* lost, 'disconnect' fires
TransportDisconnect ==
  /\ socketConnected
  /\ socketConnected' = FALSE
  /\ rooms' = {}
  /\ inbox' = <<>>
  /\ outbox' = <<>>
  /\ IF Registered("disconnect") THEN onDisconnect
     ELSE UNCHANGED <<connected, joinedRef, last, messages, loading>>
  /\ UNCHANGED <<now, store, pendingTr, opened, sessionId, listeners, fetchState, fetchData, fetchLen,
                 pending, nSends, missed, stale, sideVars>>

\* number of optimistic placeholders matching msg by sender and content
Matching(prev, msg) ==
  Cardinality({i \in 1..Len(prev) : /\ IsTemp(prev[i].id)
                                     /\ prev[i].content = msg.content
                                     /\ prev[i].sender_id = msg.sender_id})

\* 'new_message' is delivered to onNewMessage
onNewMessage ==
  /\ Registered("new_message")
  /\ inbox # <<>>
  /\ Head(inbox).type = "new_message"
  /\ LET msg == Head(inbox).msg
     IN  /\ messages' = onNewMessageState(messages, msg)
         /\ last' = Op("new_message", msg.id, msg.id \in Ids(messages),
                       Matching(messages, msg))
  /\ inbox' = Tail(inbox)
  /\ UNCHANGED <<now, store, pendingTr, rooms, outbox, socketConnected,
                 opened, sessionId, listeners, loading, connected, joinedRef, fetchState, fetchData,
                 fetchLen, pending, nSends, missed, stale, sideVars>>

\* 'message_updated' is delivered to onMessageUpdated
onMessageUpdated ==
  /\ Registered("message_updated")
  /\ inbox # <<>>
  /\ Head(inbox).type = "message_updated"
  /\ LET update == Head(inbox)
     IN  /\ messages' = onMessageUpdatedState(messages, update)
         /\ last' = Op("message_updated", update.id, update.id \in Ids(messages), 0)
  /\ inbox' = Tail(inbox)
  /\ UNCHANGED <<now, store, pendingTr, rooms, outbox, socketConnected,
                 opened, sessionId, listeners, loading, connected, joinedRef, fetchState, fetchData,
                 fetchLen, pending, nSends, missed, stale, sideVars>>

\* fetchInitial: the awaited getMessages resolves: setMessages(data), then
\* setLoading(false)
FetchResolve ==
  /\ fetchState = "served"
  /\ fetchState' = "done"
  /\ messages' = fetchData
  /\ loading' = FALSE
  /\ last' = Op("fetchResolve", NoId, FALSE, 0)
  /\ UNCHANGED <<now, store, pendingTr, rooms, inbox, outbox, socketConnected,
                 opened, sessionId, listeners, connected, joinedRef, fetchData, fetchLen,
                 pending, nSends, missed, stale, sideVars>>

\* fetchInitial: getMessages rejects: the error is logged, setLoading(false)
FetchFail ==
  /\ fetchState = "requested"
  /\ fetchState' = "done"
  /\ loading' = FALSE
  /\ last' = Op("fetchFail", NoId, FALSE, 0)
  /\ UNCHANGED <<now, store, pendingTr, rooms, inbox, outbox, socketConnected,
                 opened, sessionId, listeners, connected, joinedRef, messages, fetchData,
                 fetchLen, pending, nSends, missed, stale, sideVars>>

(* ------------------------ useMessages: sendMessage --------------------- *)
\* sendMessage up to the await: trim, optimistic append, REST call issued
\* (the hook's part of the step; the caller's state is left to the caller)
sendMessageCall(content) ==
  /\ opened
  /\ Sent < MaxMsgs
  /\ Trim(content) # ""
  /\ now' \in ClockRead
  /\ LET trimmed == Trim(content)
         tempId == TempId(now')
         optimistic == [Msg(tempId, Me, trimmed, NoTr, now') EXCEPT !.session_id = sessionId]
     IN  /\ messages' = Append(messages, optimistic)
         /\ pending' = Append(pending, [tid |-> tempId, content |-> trimmed, st |-> "sent"])
         /\ last' = Op("sendMessage", tempId, FALSE, 0)
  /\ nSends' = nSends + 1
  /\ UNCHANGED <<store, pendingTr, rooms, inbox, outbox, socketConnected,
                 opened, sessionId, listeners, loading, connected, joinedRef, fetchState,
                 fetchData, fetchLen, missed, stale, backVars>>

\* sendMessage called on its own
sendMessage(content) == sendMessageCall(content) /\ UNCHANGED chatVars

\* sendMessageRest resolved: nothing is done, the optimistic entry stays
SendOkSettle(i) ==
  /\ pending[i].st = "ok"
  /\ pending' = RemoveAt(pending, i)
  /\ last' = Op("sendOk", pending[i].tid, FALSE, 0)
  /\ UNCHANGED <<now, store, pendingTr, rooms, inbox, outbox, socketConnected,
                 opened, sessionId, listeners, messages, loading, connected, joinedRef,
                 fetchState, fetchData, fetchLen, nSends, missed, stale, backVars>>

SendOk(i) == SendOkSettle(i) /\ UNCHANGED chatVars

\* sendMessageRest rejected (store insert failed, validation, network; nothing
\* was persisted or broadcast): remove the optimistic entry, re-throw (flag)
SendFailSettle(i) ==
  /\ pending[i].st = "sent"
  /\ pending' = RemoveAt(pending, i)
  /\ messages' = rollback(messages, pending[i].tid)
  /\ last' = Op("sendFail", pending[i].tid, TRUE,
                Cardinality({j \in 1..Len(messages) : messages[j].id = pending[i].tid}))
  /\ UNCHANGED <<now, store, pendingTr, rooms, inbox, outbox, socketConnected,
                 opened, sessionId, listeners, loading, connected, joinedRef, fetchState,
                 fetchData, fetchLen, nSends, missed, stale, backVars>>

SendFail(i) == SendFailSettle(i) /\ UNCHANGED chatVars

(* ------------------------ useMessages: cleanup ------------------------- *)
\* faulty variant: leave_room is emitted whatever the connection state
leaveRoom_always(isConnected, s) == <<LeaveEvent(s)>>

\* if (socket.connected) socket.emit('leave_room', { session_id })
leaveRoom(isConnected, s) == IF isConnected THEN <<LeaveEvent(s)>> ELSE <<>>

\* faulty variant: the handlers stay registered
socketOff_none(ls) == ls

\* socket.off for each of the five handlers
socketOff(ls) == [e \in Events |-> ls[e] - 1]

\* the cleanup of the effect (unmount or sessionId change)
Close ==
  /\ opened
  /\ opened' = FALSE
  /\ outbox' = outbox \o leaveRoom(socketConnected, sessionId)
  /\ listeners' = socketOff(listeners)
  /\ joinedRef' = FALSE
  /\ last' = Op("close", IF socketConnected THEN NoId ELSE NoLeave, socketConnected, 0)
  /\ UNCHANGED <<now, store, pendingTr, rooms, inbox, socketConnected, sessionId,
                 messages, loading, connected, fetchState, fetchData, fetchLen,
                 pending, nSends, missed, stale, sideVars>>

\* the relay processes a leave_room: leave(session, handle)
RelayLeave ==
  /\ outbox # <<>>
  /\ Head(outbox).type = "leave_room"
  /\ rooms' = rooms \ {Head(outbox).session_id}
  /\ outbox' = Tail(outbox)
  /\ UNCHANGED <<now, store, pendingTr, inbox, socketConnected, opened, sessionId,
                 listeners, messages, loading, connected, joinedRef, fetchState,
                 fetchData, fetchLen, pending, nSends, missed, stale, last, sideVars>>

\* an event arrives for which no handler is registered: it is dropped
DeliverUnheard ==
  /\ inbox # <<>>
  /\ ~Registered(Head(inbox).type)
  /\ inbox' = Tail(inbox)
  /\ UNCHANGED <<now, store, pendingTr, rooms, outbox, socketConnected, opened,
                 sessionId, listeners, messages, loading, connected, joinedRef,
                 fetchState, fetchData, fetchLen, pending, nSends, missed, stale, last,
                 sideVars>>

\* sessions opened and closed one after the other on the shared socket
LifeNext ==
  \/ \E s \in Sessions : Len(outbox) + 2 <= MaxOutbox /\ Open(s)
  \/ Close
  \/ TransportConnect
  \/ TransportDisconnect
  \/ RelayJoin
  \/ RelayLeave
  \/ PeerSend
  \/ \E id \in pendingTr : TranslationComplete(id)
  \/ onNewMessage
  \/ onMessageUpdated
  \/ DeliverUnheard

LifeSpec == Init /\ [][LifeNext]_vars

(* ------------- useMessages: history fetches of earlier runs ------------ *)
\* the request of an earlier fetchInitial reaches the server
StaleServe(f) ==
  /\ f \in stale
  /\ ~f.served
  /\ stale' = (stale \ {f}) \cup
               {[f EXCEPT !.served = TRUE, !.data = ServerPage(StoreOf(f.session), 0, NoCursor)]}
  /\ UNCHANGED <<now, store, pendingTr, rooms, inbox, outbox, socketConnected,
                 opened, sessionId, listeners, messages, loading, connected,
                 joinedRef, fetchState, fetchData, fetchLen, pending, nSends,
                 missed, last, sideVars>>

\* the awaited getMessages of an earlier fetchInitial resolves: its closure
\* still calls setMessages(data), then setLoading(false)
StaleResolve(f) ==
  /\ f \in stale
  /\ f.served
  /\ stale' = stale \ {f}
  /\ messages' = f.data
  /\ loading' = FALSE
  /\ last' = Op("staleResolve", NoId, f.session # sessionId, 0)
  /\ UNCHANGED <<now, store, pendingTr, rooms, inbox, outbox, socketConnected,
                 opened, sessionId, listeners, connected, joinedRef, fetchState,
                 fetchData, fetchLen, pending, nSends, missed, sideVars>>

\* the awaited getMessages of an earlier fetchInitial rejects: setLoading(false)
StaleFail(f) ==
  /\ f \in stale
  /\ ~f.served
  /\ stale' = stale \ {f}
  /\ loading' = FALSE
  /\ last' = Op("staleFail", NoId, f.session # sessionId, 0)
  /\ UNCHANGED <<now, store, pendingTr, rooms, inbox, outbox, socketConnected,
                 opened, sessionId, listeners, messages, connected, joinedRef,
                 fetchState, fetchData, fetchLen, pending, nSends, missed, sideVars>>

\* the sessionId of a mounted hook changes while history fetches and room
\* events are in flight
SessNext ==
  \/ \E s \in Sessions : /\ Len(outbox) + 2 <= MaxOutbox
                          /\ Cardinality(stale \cup InFlight) <= MaxStale
                          /\ Open(s)
  \/ Close
  \/ RelayJoin
  \/ RelayLeave
  \/ PeerSend
  \/ FetchServe
  \/ FetchResolve
  \/ FetchFail
  \/ \E f \in stale : StaleServe(f)
  \/ \E f \in stale : StaleResolve(f)
  \/ \E f \in stale : StaleFail(f)
  \/ onNewMessage
  \/ DeliverUnheard

SessSpec == Init /\ [][SessNext]_vars

(* ------------------- SessionChat: the message input -------------------- *)
\* onChange of the input, which is disabled while loading or sending
onChange(text) ==
  /\ opened
  /\ ~loading
  /\ ~isSending
  /\ newMessage' = text
  /\ UNCHANGED <<isSending, textToSend, toasts>>
  /\ UNCHANGED <<store, engineVars, backVars>>

\* handleSend up to its await: capture the text, clear the input, set
\* isSending, call sendMessage
handleSend ==
  /\ Trim(newMessage) # ""
  /\ ~isSending
  /\ textToSend' = newMessage
  /\ newMessage' = ""
  /\ isSending' = TRUE
  /\ toasts' = toasts
  /\ sendMessageCall(newMessage)

\* sendMessage resolved: finally setIsSending(false)
handleSendOk(i) ==
  /\ isSending
  /\ SendOkSettle(i)
  /\ isSending' = FALSE
  /\ UNCHANGED <<newMessage, textToSend, toasts>>

\* faulty variant: the input is left as it is
catchNewMessage_keep(submitted, current) == current

\* catch: setNewMessage(textToSend)
catchNewMessage(submitted, current) == submitted

\* sendMessage rejected: restore the input, toast 'Send failed', finally
\* setIsSending(false)
handleSendFail(i) ==
  /\ isSending
  /\ SendFailSettle(i)
  /\ newMessage' = catchNewMessage(textToSend, newMessage)
  /\ toasts' = toasts + 1
  /\ isSending' = FALSE
  /\ UNCHANGED textToSend

ChatNext ==
  \/ Open(Home)
  \/ FetchServe
  \/ FetchResolve
  \/ FetchFail
  \/ \E text \in Inputs \cup {""} : onChange(text)
  \/ handleSend
  \/ \E i \in 1..Len(pending) : ServerSend(i)
  \/ \E i \in 1..Len(pending) : handleSendOk(i)
  \/ \E i \in 1..Len(pending) : handleSendFail(i)

(* ------------------------------ Spec ----------------------------------- *)
Next ==
  \/ Open(Home)
  \/ TransportConnect
  \/ TransportDisconnect
  \/ RelayJoin
  \/ PeerSend
  \/ \E i \in 1..Len(pending) : ServerSend(i)
  \/ \E id \in pendingTr : TranslationComplete(id)
  \/ FetchServe
  \/ FetchResolve
  \/ FetchFail
  \/ onNewMessage
  \/ onMessageUpdated
  \/ \E c \in Inputs : sendMessage(c)
  \/ \E i \in 1..Len(pending) : SendOk(i)
  \/ \E i \in 1..Len(pending) : SendFail(i)

Spec == Init /\ [][Next]_vars

\* the chat page sending through the hook
ChatSpec == Init /\ [][ChatNext]_vars


(* ---------------------- lib/api.ts: getAllMessages --------------------- *)
\* getMessages(sessionId, limit, cursor): limit / cursor are sent only when
\* truthy (0 stands for an absent limit)
getMessages(st, limit, cursor) == ServerPage(st, limit, cursor)

\* the stores of n messages whose created_at is non-decreasing in insertion order
Stores(n) ==
  { [i \in 1..n |-> Msg(SrvId(i), Peer, "a", NoTr, f[i])] :
      f \in { g \in [1..n -> 1..MaxStamp] :
                \A i \in 1..n : \A j \in 1..n : i < j => g[i] <= g[j] } }

\* a session of N messages at rest and a page limit k
PageInit ==
  /\ \E n \in 0..MaxN : store \in Stores(n)
  /\ pg_k \in 1..MaxLimit
  /\ pg_all = <<>>
  /\ pg_cursor = NoCursor
  /\ pg_pc = "loop"
  /\ pg_reqs = 0
  /\ pg_ret = NoResult
  /\ pg_fail = FALSE
  /\ ChatIdle
  /\ RelayIdle
  /\ TrIdle
  /\ AudioIdle
  /\ IndIdle
  /\ RcIdle
  /\ now = 1
  /\ pendingTr = {}
  /\ rooms = {}
  /\ inbox = <<>>
  /\ outbox = <<>>
  /\ socketConnected = FALSE
  /\ opened = FALSE
  /\ sessionId = NoSession
  /\ listeners = [e \in Events |-> 0]
  /\ messages = <<>>
  /\ loading = TRUE
  /\ connected = FALSE
  /\ joinedRef = FALSE
  /\ fetchState = "none"
  /\ fetchData = <<>>
  /\ fetchLen = 0
  /\ pending = <<>>
  /\ nSends = 0
  /\ missed = {}
  /\ stale = {}
  /\ last = Op("init", NoId, FALSE, 0)

\* one iteration of the while (true) loop of getAllMessages (pageSize = pg_k)
getAllMessages ==
  /\ pg_pc = "loop"
  /\ LET page == getMessages(store, pg_k, pg_cursor)
     IN  /\ pg_all' = pg_all \o page
         /\ IF Len(page) < pg_k
            THEN /\ pg_pc' = "done"
                 /\ pg_cursor' = pg_cursor
            ELSE /\ pg_pc' = "loop"
                 /\ pg_cursor' = page[Len(page)].id
  /\ pg_reqs' = pg_reqs + 1
  /\ pg_ret' = IF pg_pc' = "done" THEN <<"resolved", pg_all'>> ELSE NoResult
  /\ UNCHANGED <<store, pg_k, pg_fail, engineVars, chatVars, relayVars, trVars, uiVars>>

\* faulty variant: the rejected request is caught and the page asked again
awaitRejected_retry == "loop"

\* where the loop goes when the awaited getMessages rejects: there is no
\* try / catch, the rejection leaves getAllMessages
awaitRejected == "rejected"

\* a page request is rejected: fetch fails, or the response is not ok (an
\* unrecognized cursor, a server error) and request throws
getAllMessagesRejected ==
  /\ pg_pc = "loop"
  /\ pg_reqs' = pg_reqs + 1
  /\ pg_fail' = TRUE
  /\ pg_pc' = awaitRejected
  /\ pg_ret' = IF pg_pc' = "rejected" THEN <<"rejected">> ELSE pg_ret
  /\ UNCHANGED <<store, pg_k, pg_all, pg_cursor, engineVars, chatVars, relayVars, trVars, uiVars>>

PageNext ==
  \/ getAllMessages
  \/ getAllMessagesRejected

PageSpec == PageInit /\ [][PageNext]_vars


(* ---------------- SessionChat: audio recording and upload -------------- *)
otherThanAudio == <<store, engineVars, pageVars, chatVars, relayVars, trVars, indVars, rcVars>>

\* the condition of the auto-send effect, which runs after every render that
\* changed audioBlob, isRecording or isUploadingAudio; uploadAndSendAudio
\* checks audioBlob and isUploadingAudio once more
autoSend(blob, recording, busy) == blob # 0 /\ ~recording /\ ~busy

\* the state after the render that follows a change to (blob, recording,
\* busy), with the auto-send effect run: when its condition holds,
\* uploadAndSendAudio sets isUploadingAudio and calls uploadAudio(blob)
Rendered(blob, recording, busy) ==
  IF autoSend(blob, recording, busy) /\ uploads[blob] < MaxUploads
  THEN /\ isUploadingAudio' = TRUE
       /\ uploading' = blob
       /\ uploads' = [uploads EXCEPT ![blob] = @ + 1]
  ELSE /\ isUploadingAudio' = busy
       /\ uploading' = IF busy THEN uploading ELSE 0
       /\ uploads' = uploads

\* handleVoiceToggle while idle: startRecording (the button is disabled
\* while an upload is in flight)
startRecording ==
  /\ ~isRecording
  /\ ~isUploadingAudio
  /\ nRecordings + (IF stopping THEN 1 ELSE 0) < MaxRecordings
  /\ isRecording' = TRUE
  /\ Rendered(audioBlob, TRUE, isUploadingAudio)
  /\ UNCHANGED <<audioBlob, stopping, nRecordings>>
  /\ UNCHANGED otherThanAudio

\* handleVoiceToggle while recording: mediaRecorder.stop(), setIsRecording(false)
stopRecording ==
  /\ isRecording
  /\ ~stopping
  /\ isRecording' = FALSE
  /\ stopping' = TRUE
  /\ Rendered(audioBlob, FALSE, isUploadingAudio)
  /\ UNCHANGED <<audioBlob, nRecordings>>
  /\ UNCHANGED otherThanAudio

\* mediaRecorder.onstop: setAudioBlob(blob) with the new recording
onstop ==
  /\ stopping
  /\ stopping' = FALSE
  /\ nRecordings' = nRecordings + 1
  /\ audioBlob' = nRecordings'
  /\ Rendered(audioBlob', isRecording, isUploadingAudio)
  /\ UNCHANGED isRecording
  /\ UNCHANGED otherThanAudio

\* uploadAudio resolved: clearRecording(), finally setIsUploadingAudio(false)
uploadAudioOk ==
  /\ uploading # 0
  /\ audioBlob' = 0
  /\ isRecording' = FALSE
  /\ Rendered(0, FALSE, FALSE)
  /\ UNCHANGED <<stopping, nRecordings>>
  /\ UNCHANGED otherThanAudio

\* uploadAudio rejected: the error is logged and alerted, the recording is
\* kept, finally setIsUploadingAudio(false)
uploadAudioFail ==
  /\ uploading # 0
  /\ Rendered(audioBlob, isRecording, FALSE)
  /\ UNCHANGED <<audioBlob, isRecording, stopping, nRecordings>>
  /\ UNCHANGED otherThanAudio

AudioNext ==
  \/ startRecording
  \/ stopRecording
  \/ onstop
  \/ uploadAudioOk
  \/ uploadAudioFail

AudioInit == AllIdle

AudioSpec == AudioInit /\ [][AudioNext]_vars

(* ---------------- SessionChat: translation display --------------------- *)
otherThanInd == <<store, engineVars, pageVars, chatVars, relayVars, trVars, audioVars, rcVars>>

\* ageMs > 30_000: the spinner is hidden
TranslatingWindowMs == 30000
\* the clock of the display specification advances in thirds of the window
TickMs == TranslatingWindowMs \div 3

\* what the worker may write to translated_content: a translation, the
\* text itself, an error sentinel
Hello == "Hello"
Sentinel(text) == "[Translation failed]: " \o text
\* translated_content.startsWith('[')
StartsWithBracket(t) == t \in {Sentinel("Hola"), "[error]"}

\* what the render puts below the bubble of a message at time nowMs
\* (translated_content "" stands for null: both are falsy)
TranslationDisplay(message, nowMs) ==
  IF message.audio_url # "" THEN "none"
  ELSE IF message.translated_content # ""
       THEN IF /\ message.translated_content # message.content
               /\ ~StartsWithBracket(message.translated_content)
            THEN "translation" ELSE "none"
       ELSE IF nowMs - message.created_at > TranslatingWindowMs THEN "none"
            ELSE "spinner"

\* a message on display since its creation or since a later first render
IndInit ==
  /\ EngineIdle /\ PageIdle /\ ChatIdle /\ RelayIdle /\ TrIdle /\ AudioIdle /\ RcIdle
  /\ \E audio \in {"", "/uploads/a.webm"} :
     \E tc \in {"", Hello} :
     \E created \in {0, TickMs} :
        ind_msg = [id |-> SrvId(1), content |-> "Hola", translated_content |-> tc,
                   audio_url |-> audio, created_at |-> created]
  /\ ind_now \in {ind_msg.created_at, ind_msg.created_at + TickMs}
  /\ ind_view = TranslationDisplay(ind_msg, ind_now)

\* time passes; nothing re-renders the page
IndTick ==
  /\ ind_now + TickMs <= MaxIndClock
  /\ ind_now' = ind_now + TickMs
  /\ UNCHANGED <<ind_msg, ind_view>>
  /\ UNCHANGED otherThanInd

\* message_updated for the message: onMessageUpdated sets translated_content
\* and the page renders
IndUpdate(tc) ==
  /\ ind_msg.translated_content = ""
  /\ ind_msg' = onMessageUpdatedState(<<ind_msg>>,
                   [id |-> ind_msg.id, translated_content |-> tc])[1]
  /\ ind_view' = TranslationDisplay(ind_msg', ind_now)
  /\ UNCHANGED ind_now
  /\ UNCHANGED otherThanInd

\* any other state change renders the page again
IndRender ==
  /\ ind_view' = TranslationDisplay(ind_msg, ind_now)
  /\ UNCHANGED <<ind_msg, ind_now>>
  /\ UNCHANGED otherThanInd

IndNext ==
  \/ IndTick
  \/ \E tc \in {Hello, "Hola", Sentinel("Hola")} : IndUpdate(tc)
  \/ IndRender

IndSpec == IndInit /\ [][IndNext]_vars

(* --------------- lib/api.ts: getSocket and reconnection ---------------- *)
otherThanRc == <<store, engineVars, pageVars, chatVars, relayVars, trVars, audioVars, indVars>>

\* the options getSocket passes to io()
\* faulty variant: the number of attempts is limited
reconnectionAttempts_three == <<"n", 3>>

\* reconnectionAttempts: Infinity
reconnectionAttempts == <<"inf", 0>>
reconnectionDelay == 1000
reconnectionDelayMax == 5000

\* the tokens getToken() may return
Tokens == {"t1", "t2"}

\* the transport stops trying after this many failed attempts
Exhausted(n) == reconnectionAttempts[1] = "n" /\ n >= reconnectionAttempts[2]

RECURSIVE Pow2(_)
Pow2(n) == IF n = 0 THEN 1 ELSE 2 * Pow2(n - 1)

\* exponential backoff bounded above: the delay before attempt n + 1
duration(n) ==
  LET ms == reconnectionDelay * Pow2(n)
  IN  IF ms > reconnectionDelayMax THEN reconnectionDelayMax ELSE ms

\* the transport drops: the 'disconnect' handler of getSocket refreshes
\* socket.auth, the transport schedules its first reconnection attempt
rcDisconnect ==
  /\ rc_state = "connected"
  /\ rc_auth' = rc_token
  /\ rc_state' = "reconnecting"
  /\ rc_attempts' = 0
  /\ rc_delay' = duration(0)
  /\ rc_wait' = rc_delay'
  /\ UNCHANGED rc_token
  /\ UNCHANGED otherThanRc

\* the delay runs down
rcTimer ==
  /\ rc_state = "reconnecting"
  /\ rc_wait > 0
  /\ rc_wait' = IF rc_wait > reconnectionDelay THEN rc_wait - reconnectionDelay ELSE 0
  /\ UNCHANGED <<rc_state, rc_attempts, rc_delay, rc_token, rc_auth>>
  /\ UNCHANGED otherThanRc

\* an attempt fails ('connect_error' is logged): the next one is scheduled,
\* unless the attempts are exhausted
rcAttemptFail ==
  /\ rc_state = "reconnecting"
  /\ rc_wait = 0
  /\ rc_attempts < MaxAttempts
  /\ rc_attempts' = rc_attempts + 1
  /\ IF Exhausted(rc_attempts')
     THEN /\ rc_state' = "failed"
          /\ rc_delay' = 0
     ELSE /\ rc_state' = "reconnecting"
          /\ rc_delay' = duration(rc_attempts')
  /\ rc_wait' = rc_delay'
  /\ UNCHANGED <<rc_token, rc_auth>>
  /\ UNCHANGED otherThanRc

\* an attempt succeeds: 'connect'
rcAttemptOk ==
  /\ rc_state = "reconnecting"
  /\ rc_wait = 0
  /\ rc_state' = "connected"
  /\ rc_attempts' = 0
  /\ rc_delay' = 0
  /\ rc_wait' = 0
  /\ UNCHANGED <<rc_token, rc_auth>>
  /\ UNCHANGED otherThanRc

\* a sign-in stores another token
rcTokenChange(t) ==
  /\ t # rc_token
  /\ rc_token' = t
  /\ UNCHANGED <<rc_state, rc_attempts, rc_delay, rc_wait, rc_auth>>
  /\ UNCHANGED otherThanRc

RcNext ==
  \/ rcDisconnect
  \/ rcTimer
  \/ rcAttemptFail
  \/ rcAttemptOk
  \/ \E t \in Tokens : rcTokenChange(t)

RcInit == AllIdle

RcSpec == RcInit /\ [][RcNext]_vars

(* ------------------------------ claims --------------------------------- *)
SrvEntries(s) == SelectSeq(s, LAMBDA m : IsSrv(m.id))
TempEntries(s) == SelectSeq(s, LAMBDA m : IsTemp(m.id))
Count(s, id) == Cardinality({i \in 1..Len(s) : s[i].id = id})
Entry(s, id) == s[CHOOSE i \in 1..Len(s) : s[i].id = id]

\* C1: whatever new_message deliveries, history fetches and sends have been
\* applied, every server-assigned id occurs at most once in the message list.
C1_NoDuplication ==
  \A i \in 1..Len(messages) : \A j \in 1..Len(messages) :
    (i # j /\ IsSrv(messages[i].id)) => messages[i].id # messages[j].id

\* C1 witness: a new_message whose id was already in the list has just been
\* delivered and absorbed.
C1_Witness ==
  /\ last.op = "new_message"
  /\ last.flag
  /\ Count(messages, last.id) = 1

C3_PhaseOrdering ==
  [][onMessageUpdated =>
       LET u == Head(inbox)
       IN  IF u.id \notin Ids(messages)
           THEN messages' = messages
           ELSE /\ Count(messages', u.id) = 1
                /\ Entry(messages', u.id).translated_content = u.translated_content
                /\ Entry(messages', u.id).translated_content # NoTr
                /\ Len(messages') = Len(messages)]_vars

\* C3 witness: new_message and then message_updated were applied for an id;
\* the entry carries the translation.
C3_Witness ==
  /\ last.op = "message_updated"
  /\ last.flag
  /\ Count(messages, last.id) = 1
  /\ Entry(messages, last.id).translated_content = Tr(last.id[2])

\* C3, the other case: an update that arrived before its message was dropped.
C3_DiscardReached ==
  /\ last.op = "message_updated"
  /\ ~last.flag
  /\ Count(messages, last.id) = 0

\* C4: while the session is open, neither the disconnect handler nor the
\* connect handler changes the message list, and the connect handler emits
\* join_room and leaves joinedRef set.
C4_NoLossUnderReconnect ==
  [][(opened /\ (TransportDisconnect \/ TransportConnect)) =>
       /\ messages' = messages
       /\ TransportConnect => /\ outbox' = Append(outbox, JoinEvent(sessionId))
                              /\ joinedRef']_vars

\* C4 witness: the transport dropped and came back while the list held
\* messages; join_room for the session is on its way to the relay.
C4_Witness ==
  /\ last.op = "connect"
  /\ last.flag
  /\ Len(messages) >= 1
  /\ outbox = <<JoinEvent(Home)>>

\* C5 (as claimed): once the client is connected again and joined, with no
\* history fetch outstanding, every message it holds whose message_updated
\* it missed while disconnected shows the persisted translation.
C5_ResyncAfterReconnect ==
  \A id \in missed :
    (/\ socketConnected /\ connected /\ joinedRef /\ Home \in rooms
     /\ fetchState \in {"none", "done"}
     /\ id \in Ids(messages))
    => Entry(messages, id).translated_content = store[id[2]].translated_content

\* C6 (as claimed): when the cursor loop ends, the pages collected are the
\* whole session in order, without duplicates or gaps.
C6_PaginationComplete ==
  pg_pc = "done" => pg_all = store

\* C7: the delivery of the broadcast of one of the user's own messages leaves
\* exactly one entry with the server id and no optimistic placeholder with
\* that sender and content, whether or not the REST call has returned.
C7_SingleEntryPerSend ==
  [][onNewMessage =>
       LET msg == Head(inbox).msg
       IN  msg.sender_id = Me =>
             /\ Count(messages', msg.id) = 1
             /\ \A i \in 1..Len(messages') :
                  ~(/\ IsTemp(messages'[i].id)
                    /\ messages'[i].sender_id = msg.sender_id
                    /\ messages'[i].content = msg.content)]_vars

\* C7 witness: the broadcast has just replaced the placeholder of a send
\* whose REST call is still in flight.
C7_Witness ==
  /\ last.op = "new_message"
  /\ last.removed = 1
  /\ ~last.flag
  /\ Count(messages, last.id) = 1
  /\ Entry(messages, last.id).sender_id = Me
  /\ TempEntries(messages) = <<>>
  /\ Len(pending) = 1

\* C7, the other order: the REST call returned before the broadcast arrived.
C7_ResponseFirstReached ==
  /\ last.op = "new_message"
  /\ last.removed = 1
  /\ Count(messages, last.id) = 1
  /\ pending = <<>>

\* C8 (as claimed): once every send call has completed and nothing is in
\* flight any more, no optimistic placeholder is left in the list.
C8_OptimisticResolved ==
  (/\ pending = <<>>
   /\ inbox = <<>>
   /\ fetchState = "done")
  => TempEntries(messages) = <<>>

\* C9 (as claimed): when the history fetch of open has resolved, the list is
\* the whole persisted history of the session, each message once, in order.
C9_FullHistoryAtOpen ==
  last.op = "fetchResolve" =>
    [i \in 1..Len(messages) |-> messages[i].id] = [i \in 1..fetchLen |-> SrvId(i)]

\* C10: the server-id entries of the list are in persistence order, hence in
\* non-decreasing created_at order.
C10_OrderingGuarantee ==
  \A i \in 1..Len(messages) : \A j \in 1..Len(messages) :
    (i < j /\ IsSrv(messages[i].id) /\ IsSrv(messages[j].id)) =>
      /\ messages[i].id[2] < messages[j].id[2]
      /\ messages[i].created_at <= messages[j].created_at

\* C10 witness: after the history fetch, a live message was appended behind
\* an earlier one.
C10_Witness ==
  /\ last.op = "new_message"
  /\ ~last.flag
  /\ fetchState = "done"
  /\ Len(SrvEntries(messages)) >= 2
  /\ messages[Len(messages)].id = last.id

(* --------------------------- claims: relay ----------------------------- *)
Pos(log, ev) == {i \in 1..Len(log) : log[i] = ev}

\* C11: from every registry the relay reaches, join(S, h) creates the room
\* if needed and is never refused, and a second join(S, h) right after it
\* changes nothing: the room holds h once and keeps its size.
C11_IdempotentJoin ==
  \A S \in Sessions : \A h \in Handles :
    LET once == join(r_rooms, S, h)
        twice == join(once, S, h)
    IN  /\ ENABLED RelayJoinRoom(S, h)
        /\ S \in DOMAIN once
        /\ h \in once[S]
        /\ twice = once
        /\ Cardinality(twice[S]) = Cardinality(Members(r_rooms, S) \cup {h})

\* C11 witness: a handle joined a room it was a member of, next to another
\* member; nothing was refused.
C11_Witness ==
  /\ r_res = "noop"
  /\ \E S \in DOMAIN r_rooms : r_rooms[S] = Handles

\* C12: a translation is requested only once Phase 1 of its message has been
\* broadcast; no handle is delivered new_message for an id after
\* message_updated for it; and a handle that has been in the room since
\* Phase 1 has new_message before message_updated in its deliveries.
C12_RelayPhaseOrder ==
  /\ \A p \in r_pend :
        ~(/\ r_job # NoJob
          /\ r_job.id = p[1]
          /\ \E k \in r_job.step..Len(SendOrder) : SendOrder[k] = "broadcast")
  /\ \A h \in Handles : \A j \in 1..Len(r_log[h]) :
        r_log[h][j][1] = "message_updated" =>
          LET id == r_log[h][j][2]
              news == Pos(r_log[h], <<"new_message", id>>)
          IN  /\ \A i \in news : i < j
              /\ h \in r_since[id] => news # {}

\* C12 witness: two sends and their translation completions interleaved; a
\* member throughout saw both phases of both messages.
C12_Witness ==
  \E h \in Handles :
    /\ h \in r_since[1] \cap r_since[2]
    /\ r_log[h] = << <<"new_message", 1>>, <<"new_message", 2>>,
                     <<"message_updated", 2>>, <<"message_updated", 1>> >>

\* C12, the other case: a handle that joined between the two phases is
\* delivered the update alone.
C12_LateJoinerReached ==
  \E h \in Handles : r_log[h] = << <<"message_updated", 1>> >>

\* C13: every new_message or message_updated delivered, and every
\* translation requested, is for a message the store holds; a send whose
\* insert failed has returned an error and is over.
C13_NoBroadcastWithoutPersistence ==
  /\ \A h \in Handles : \A j \in 1..Len(r_log[h]) :
        \E n \in 1..Len(r_store) : r_store[n].id = r_log[h][j][2]
  /\ \A p \in r_pend : \E n \in 1..Len(r_store) : r_store[n].id = p[1]
  /\ r_res = "error" => r_job = NoJob

\* C13 witness: an insert failed while the room had members: error returned,
\* store empty, nothing delivered, no translation requested.
C13_Witness ==
  /\ r_res = "error"
  /\ Members(r_rooms, Home) = Handles
  /\ r_store = <<>>
  /\ r_pend = {}
  /\ \A h \in Handles : r_log[h] = <<>>

(* ------------------------- claims: getAllMessages ---------------------- *)
\* C14: once a page request of getAllMessages has been rejected, the loop is
\* over: the promise is rejected, it carries no list, and no further request
\* can be issued.
C14_NoRetryOnRejectedPage ==
  pg_fail =>
    /\ pg_pc = "rejected"
    /\ pg_ret = <<"rejected">>
    /\ ~ENABLED PageNext

\* C14 witness: the second page request was rejected after a full first page
\* had been collected; exactly two requests were issued.
C14_Witness ==
  /\ pg_fail
  /\ pg_reqs = 2
  /\ Len(pg_all) = pg_k
  /\ pg_cursor # NoCursor
  /\ pg_ret = <<"rejected">>

(* --------------------------- claims: translateText --------------------- *)
\* C15: translateText never throws: a call that is awaiting can always
\* settle, and it settles by returning; when the backend call failed, what
\* it returns is "[Translation failed]: " followed by the text.
C15_TranslationFailureIsValue ==
  /\ tr_pc # "thrown"
  /\ tr_pc = "awaiting" => ENABLED TrNext
  /\ (tr_pc = "returned" /\ tr_err # "none") =>
        tr_ret = "[Translation failed]: " \o tr_text
  /\ (tr_pc = "returned" /\ tr_err = "none") =>
        tr_ret = apiTranslate(tr_text, tr_lang)

\* C15 witness: the backend answered with an error status and the call
\* returned the sentinel for the text.
C15_Witness ==
  /\ tr_pc = "returned"
  /\ tr_err = "http"
  /\ tr_text = "Hola"
  /\ tr_ret = "[Translation failed]: Hola"

(* --------------------------- claims: handleSend ------------------------ *)
\* C16: handleSend captures the input and clears it; when sendMessage
\* rejects, the input is set back to exactly the captured text, an error
\* toast is shown and isSending is cleared; when it resolves, the input
\* stays empty, no toast is shown and isSending is cleared.
C16_SendFailureRestoresInput ==
  [][/\ handleSend =>
          /\ textToSend' = newMessage
          /\ newMessage' = ""
          /\ isSending'
     /\ \A i \in 1..Len(pending) :
          handleSendFail(i) =>
            /\ newMessage' = textToSend
            /\ newMessage' # ""
            /\ toasts' = toasts + 1
            /\ ~isSending'
     /\ \A i \in 1..Len(pending) :
          handleSendOk(i) =>
            /\ newMessage' = ""
            /\ toasts' = toasts
            /\ ~isSending']_vars

\* C16 witness: a send of " a " was rejected: the input holds " a " again,
\* untrimmed, one toast was shown, and sending is possible again.
C16_Witness ==
  /\ last.op = "sendFail"
  /\ newMessage = " a "
  /\ textToSend = " a "
  /\ toasts = 1
  /\ ~isSending
  /\ ENABLED handleSend

\* C16, the other case: a send resolved and the input is still empty.
C16_SuccessReached ==
  /\ last.op = "sendOk"
  /\ newMessage = ""
  /\ ~isSending

(* ------------------------ claims: session lifecycle -------------------- *)
JoinsIn(q) == Cardinality({i \in 1..Len(q) : q[i].type = "join_room"})

\* C17: while a session is open, a transport connect signal emits exactly
\* one join_room, for that session, and leaves joinedRef set; join_room is
\* emitted by no step but open and the connect signal, one at a time, and
\* never while the session is joined in the current connected period.
C17_JoinOnEveryConnect ==
  [][/\ (opened /\ TransportConnect) =>
          /\ outbox' = Append(outbox, JoinEvent(sessionId))
          /\ joinedRef'
     /\ JoinsIn(outbox') > JoinsIn(outbox) =>
          /\ TransportConnect \/ \E s \in Sessions : Open(s)
          /\ ~(joinedRef /\ socketConnected)
          /\ outbox' = Append(outbox, JoinEvent(sessionId'))
          /\ joinedRef' /\ socketConnected' /\ opened']_vars

\* C17 witness: the second session opened on the socket has just re-joined
\* its room on a reconnect.
C17_Witness ==
  /\ last.op = "connect"
  /\ last.flag
  /\ sessionId = "B"
  /\ joinedRef
  /\ outbox = <<JoinEvent("B")>>

\* C17, the other case: the first connect of a session opened while the
\* transport was down.
C17_FirstConnectReached ==
  /\ last.op = "connect"
  /\ ~last.flag
  /\ joinedRef
  /\ outbox = <<JoinEvent(sessionId)>>

\* C18 (as claimed): while a session is open and the transport is down,
\* joinedRef is false.
C18_JoinedResetOnDisconnect ==
  (opened /\ ~socketConnected) => ~joinedRef

\* C18 (amended): the disconnect handler leaves joinedRef as it was; the
\* connect handler re-joins whatever value joinedRef had, so between a
\* disconnect and the next connect joinedRef may be true and the re-join is
\* still never skipped.
C18_JoinedResetOnConnect ==
  [][/\ (opened /\ TransportDisconnect) => joinedRef' = joinedRef
     /\ (opened /\ joinedRef /\ TransportConnect) =>
          /\ JoinsIn(outbox') = JoinsIn(outbox) + 1
          /\ joinedRef']_vars

\* C18 witness: the transport dropped under a joined session: joinedRef is
\* still set while disconnected.
C18_Witness ==
  /\ last.op = "disconnect"
  /\ opened
  /\ ~socketConnected
  /\ ~connected
  /\ joinedRef

\* C19: close emits leave_room for its session exactly when the transport is
\* connected; nothing is in flight to the relay while the transport is down;
\* and once a session is open, the transport connected and every emitted
\* event handled, the client is a member of that session's room and of no
\* other.
C19_LeaveOnlyWhileConnected ==
  [][/\ Close =>
          outbox' = IF socketConnected THEN Append(outbox, LeaveEvent(sessionId))
                    ELSE outbox
     /\ ~socketConnected' => outbox' = <<>>
     /\ (opened' /\ socketConnected' /\ outbox' = <<>>) => rooms' = {sessionId'}]_vars

\* C19 witness: a session was closed while disconnected, the next one was
\* opened, the transport came back and the join was handled: the client is
\* in the room of the new session.
C19_Witness ==
  /\ last.op = "connect"
  /\ last.id = NoLeave
  /\ sessionId = "B"
  /\ socketConnected
  /\ outbox = <<>>
  /\ rooms = {"B"}

\* C19, the other case: a close while connected has queued leave_room.
C19_LeaveReached ==
  /\ last.op = "close"
  /\ last.flag
  /\ outbox # <<>>
  /\ outbox[Len(outbox)] = LeaveEvent(sessionId)

\* C20: the engine has one handler per event registered while a session is
\* open and none once it is closed; while no session is open, no step but an
\* open changes the message list, the connected flag or joinedRef, or emits
\* join_room.
C20_CloseUnregisters ==
  [][/\ \A e \in Events : listeners'[e] = IF opened' THEN 1 ELSE 0
     /\ (~opened /\ ~\E s \in Sessions : Open(s)) =>
          /\ messages' = messages
          /\ connected' = connected
          /\ joinedRef' = joinedRef
          /\ JoinsIn(outbox') <= JoinsIn(outbox)]_vars

\* C20 witness: the second session was closed while disconnected and the
\* transport then connected: no handler ran, the connected flag is stale
\* and nothing was emitted.
C20_Witness ==
  /\ ~opened
  /\ last.op = "close"
  /\ sessionId = "B"
  /\ socketConnected
  /\ ~connected
  /\ outbox = <<>>
  /\ \A e \in Events : listeners[e] = 0

\* C20, the other case: an event delivered after close was dropped.
C20_DropReached ==
  /\ ~opened
  /\ last.op = "close"
  /\ Len(store) = 1
  /\ messages = <<>>
  /\ inbox = <<>>
  /\ socketConnected
  /\ Home \in rooms

(* ----------------------- claims: session change ------------------------ *)
\* C21 (as claimed): when the effect runs for a session, it leaves in the
\* message list no entry of another session, and joinedRef is false before
\* the join, so that the join is emitted when the transport is connected.
C21_OpenResetsState ==
  [][\A s \in Sessions :
       Open(s) =>
         /\ \A i \in 1..Len(messages') : messages'[i].session_id = s
         /\ socketConnected => outbox' = Append(outbox, JoinEvent(s))]_vars

\* C22 (as claimed): when the history fetch of an earlier session resolves
\* while another session is open, the message list and the loading flag are
\* left as they are.
C22_NoStaleHistoryLeak ==
  [][\A f \in stale :
       (opened /\ f.session # sessionId /\ StaleResolve(f)) =>
         /\ messages' = messages
         /\ loading' = loading]_vars

(* --------------------- claims: history against live -------------------- *)
\* entry m of the list before a step is reflected in the list after it: kept,
\* or carried under its server id with the same or a newer translation; an
\* optimistic entry may also be carried by its persisted message
Reflected(m, after) ==
  \/ \E j \in 1..Len(after) :
        /\ after[j].id = m.id
        /\ \/ after[j].translated_content = m.translated_content
           \/ m.translated_content = NoTr
  \/ /\ IsTemp(m.id)
     /\ \E j \in 1..Len(after) :
           /\ IsSrv(after[j].id)
           /\ after[j].sender_id = m.sender_id
           /\ after[j].content = m.content

\* C23 (as claimed): when the history fetch of the open resolves, every entry
\* that a new_message, a message_updated or a send put in the list meanwhile
\* is still reflected in the list.
C23_LiveEventsSurviveHistory ==
  [][FetchResolve =>
       \A i \in 1..Len(messages) : Reflected(messages[i], messages')]_vars

(* ------------------------ claims: the reducers ------------------------- *)
SameButTranslation(a, b) ==
  /\ a.id = b.id
  /\ a.session_id = b.session_id
  /\ a.sender_id = b.sender_id
  /\ a.content = b.content
  /\ a.created_at = b.created_at

\* C24: a delivered message_updated leaves the length and order of the list
\* and every field but translated_content as they were; translated_content
\* changes only in the entries whose id is update.id, where it becomes the
\* update's; an update for an absent id changes nothing; and the same update
\* applied again changes nothing more.
C24_UpdateChangesOnlyTranslation ==
  [][onMessageUpdated =>
       LET update == Head(inbox)
       IN  /\ Len(messages') = Len(messages)
           /\ \A i \in 1..Len(messages) :
                 /\ SameButTranslation(messages'[i], messages[i])
                 /\ messages'[i].translated_content =
                      IF messages[i].id = update.id THEN update.translated_content
                      ELSE messages[i].translated_content
           /\ update.id \notin Ids(messages) => messages' = messages
           /\ onMessageUpdatedState(messages', update) = messages']_vars

\* C24 witness: an update has just been applied to one of two entries, the
\* other is as it was.
C24_Witness ==
  /\ last.op = "message_updated"
  /\ last.flag
  /\ Len(messages) = 2
  /\ Entry(messages, last.id).translated_content = Tr(last.id[2])
  /\ \E i \in 1..Len(messages) :
        /\ messages[i].id # last.id
        /\ messages[i].translated_content = NoTr

\* C24, the other case: an update for an id the list does not hold was
\* discarded.
C24_AbsentReached ==
  /\ last.op = "message_updated"
  /\ ~last.flag
  /\ messages # <<>>
  /\ last.id \notin Ids(messages)

Range(q) == {q[i] : i \in 1..Len(q)}

\* C25: after a delivered new_message the same message delivered again would
\* change nothing; the entries with a server id are those of before, in
\* order, plus at most the message itself at the end; and every entry that
\* is gone is an optimistic placeholder with the sender and content of the
\* message.
C25_DuplicateDeliveryAbsorbed ==
  [][onNewMessage =>
       LET msg == Head(inbox).msg
       IN  /\ onNewMessageState(messages', msg) = messages'
           /\ SrvEntries(messages') =
                IF msg.id \in Ids(messages) THEN SrvEntries(messages)
                ELSE Append(SrvEntries(messages), msg)
           /\ \A i \in 1..Len(messages) :
                 messages[i] \notin Range(messages') =>
                   /\ IsTemp(messages[i].id)
                   /\ messages[i].sender_id = msg.sender_id
                   /\ messages[i].content = msg.content]_vars

\* C25 witness: a message the list already held was delivered again and
\* absorbed, next to a placeholder with the same content and another sender,
\* which stays.
C25_Witness ==
  /\ last.op = "new_message"
  /\ last.flag
  /\ last.removed = 0
  /\ Count(messages, last.id) = 1
  /\ \E i \in 1..Len(messages) :
        /\ IsTemp(messages[i].id)
        /\ messages[i].content = Entry(messages, last.id).content
        /\ messages[i].sender_id # Entry(messages, last.id).sender_id

(* ----------------------- claims: optimistic ids ------------------------ *)
\* C26 (as claimed): every optimistic entry of the list has an id that is no
\* server id and that no other entry of the list has, and the rollback of a
\* failed send removes one entry, that send's.
C26_OptimisticIdsUnique ==
  /\ \A i \in 1..Len(messages) :
        IsTemp(messages[i].id) =>
          /\ messages[i].id \notin Ids(store)
          /\ \A j \in 1..Len(messages) : j # i => messages[j].id # messages[i].id
  /\ last.op = "sendFail" => last.removed <= 1

(* ---------------------- claims: the connected flag --------------------- *)
\* C27: the effect initialises connected from socket.connected; after every
\* step taken or ended with a session open, connected equals socket.connected;
\* the disconnect handler clears the flag and leaves the message list, the
\* loading flag, the sends in flight and joinedRef alone; and sendMessage can
\* be called while the transport is down.
C27_ConnectedMirrorsTransport ==
  /\ [][/\ \A s \in Sessions : Open(s) => connected' = socketConnected
        /\ opened' => connected' = socketConnected'
        /\ (opened /\ TransportDisconnect) =>
             /\ ~connected'
             /\ messages' = messages
             /\ loading' = loading
             /\ pending' = pending
             /\ joinedRef' = joinedRef]_vars
  /\ []((opened /\ ~socketConnected /\ Sent < MaxMsgs) => ENABLED sendMessage("a"))

\* C27 witness: the transport dropped under an open session that holds a
\* message: the flag is cleared and the message is still there.
C27_Witness ==
  /\ last.op = "disconnect"
  /\ opened
  /\ ~socketConnected
  /\ ~connected
  /\ messages # <<>>

\* C27, the other case: a session opened while the transport was down, and
\* the flag followed the connect.
C27_ConnectReached ==
  /\ last.op = "connect"
  /\ ~last.flag
  /\ opened
  /\ connected
  /\ socketConnected

(* --------------------------- claims: audio ----------------------------- *)
\* C28 (as claimed): no recording is uploaded more than once: after an
\* upload of a blob has completed, with success or not, no other upload of
\* that blob is started.
C28_OneUploadPerRecording ==
  \A b \in 1..MaxRecordings : uploads[b] <= 1

(* ------------------- claims: translating indicator --------------------- *)
\* C29 (as claimed): the "Translating..." indicator is on screen exactly when
\* the message is a text message, its translated_content is absent and at
\* most 30 seconds have passed since created_at.
C29_IndicatorBounded ==
  (ind_view = "spinner") <=>
    /\ ind_msg.audio_url = ""
    /\ ind_msg.translated_content = ""
    /\ ind_now - ind_msg.created_at <= TranslatingWindowMs

====
